---------------------------- MODULE Spec2Model ----------------------------
(***************************************************************************)
(* Comp-Check Bot front end: the query lifecycle of App.jsx (handleSubmit, *)
(* handleClear, fillExample, the render dispatch) together with postQuery  *)
(* of api.js.                                                              *)
(*                                                                         *)
(* One step of the model is one task of the browser's event loop together  *)
(* with the microtasks it leaves behind: a user event handler, a timer     *)
(* callback, or a network event that settles the promise a request is      *)
(* awaiting.  postQuery has two suspension points, `await fetch(...)` and  *)
(* `await response.json()` / `await response.text()`.                      *)
(*   - AbortController.abort() rejects a pending fetch() promise in the    *)
(*     abort steps themselves, so the continuation of postQuery and of     *)
(*     handleSubmit runs in the microtasks of the aborting task, after the *)
(*     synchronous part of the aborting handler.                           *)
(*   - abort() while the body is being read errors the body stream; the    *)
(*     rejection of json()/text() is delivered by a later task.            *)
(***************************************************************************)
EXTENDS Integers, Sequences, FiniteSets, TLC

\* Number of AbortControllers (accepted submits) a behaviour may create.
MaxRequests == 3

\* How far below 0 and above the scale maximum the scores given to a band
\* function on its own reach, in hundredths of the scale.
ScoreMargin == 2

\* src/unnamed/part_002:38
QUERY_TIMEOUT_MS == 90000

\* A timer slot that holds no armed timer.
NoTimer == 0

\* src/unnamed/part_001:5-11, STEPS.length
STEPS_LENGTH == 5

\* src/unnamed/part_001:20, the delay of the interval of LoadingCard
STEP_INTERVAL_MS == 2200

\* `active` when no LoadingCard is mounted.
Unmounted == -1

VARIABLES
    query,      \* useState('')      the text of the textarea
    loading,    \* useState(false)
    result,     \* useState(null)    the payload of the last success
    error,      \* useState(null)    the message of the last failure
    abortRef,   \* useRef(null)      0, or the request whose controller it holds
    nreq,       \* number of controllers created so far
    aborted,    \* aborted[r]: controller r's signal is aborted
    timer,      \* timer[r]: delay of the armed timeout of request r, or NoTimer
    phase,      \* phase[r]: where postQuery of request r is
    sentQuery,  \* the query argument of the latest call of postQuery
    settledAs,  \* how the postQuery that settled last settled
    timedOut,   \* timedOut[r]: the timeout callback of pending request r has run
    cleared,    \* handleClear has run and no submit was accepted since
    lastOp,     \* the handler or event of the last step
    active,     \* LoadingCard: useState(0), the stage index, or Unmounted
    interval,   \* LoadingCard: delay of its armed interval, or NoTimer
    call        \* a call of postQuery, or of a band function, on its own:
                \* its arguments and outcome

appVars == <<query, loading, result, error, abortRef, nreq, aborted, timer, phase,
             sentQuery, settledAs, timedOut, cleared, lastOp, active, interval>>

vars == <<query, loading, result, error, abortRef, nreq, aborted, timer, phase,
          sentQuery, settledAs, timedOut, cleared, lastOp, active, interval, call>>

Req == 1..MaxRequests

(***************************************************************************)
(* Values                                                                  *)
(***************************************************************************)

\* JS null in `result`, and the value of `body` when nothing was parsed.
Null == [isNull |-> TRUE, detail |-> "", message |-> "", answer |-> "",
         retrieved_chunks |-> << >>, structured_records |-> << >>]

\* JS null in `error`.
NoError == "<null>"

\* A parsed JSON object; an absent field is the empty (falsy) string, an
\* absent list the empty list.
Obj(detail, message, answer) ==
    [isNull |-> FALSE, detail |-> detail, message |-> message, answer |-> answer,
     retrieved_chunks |-> << >>, structured_records |-> << >>]

\* A query result as App renders it (part_002:198-204): the answer, the
\* similarity_score of each retrieved chunk and the compliance_score of
\* each structured record.  A similarity score, a fraction in the source,
\* is counted in ten-thousandths (0.91 is 9100); a compliance score is the
\* number itself.
Payload(answer, chunkScores, recordScores) ==
    [Obj("", "", answer) EXCEPT !.retrieved_chunks = chunkScores,
                                !.structured_records = recordScores]

\* The result of the end-to-end scenario: one chunk of similarity 0.91 and
\* one record of compliance 73.
ScenarioPayload == Payload("answer-1", <<9100>>, <<73>>)

\* What the user can type into the textarea.
TypedTexts == {"", " ", "q", " q "}

\* src/unnamed/part_002:18-35, the `full` texts.
EXAMPLE_QUERIES ==
    { "Show summary about contract with TransContinental Corp",
      "Which contracts in the EU region are currently in Pending status and what are their risk scores?",
      "Show me the Data Privacy related contracts in France and summarize their compliance requirements.",
      "What are the service agreement terms with Asiatrade Logistics?" }

\* The responses the backend (or a gateway in front of it) can send:
\* ok = response.ok, json = content-type includes application/json,
\* parses = the body text is valid JSON, body = the parsed value,
\* text = the body text of a non-JSON response.
Response(status, statusText, json, parses, body, text) ==
    [ok |-> (status >= 200 /\ status <= 299), status |-> status,
     statusText |-> statusText, json |-> json, parses |-> parses,
     body |-> body, text |-> text]

Responses ==
    { Response(200, "OK", TRUE, TRUE, ScenarioPayload, ""),
      Response(200, "OK", TRUE, TRUE, Null, ""),
      Response(200, "OK", TRUE, FALSE, Null, ""),
      Response(200, "OK", FALSE, FALSE, Null, "<html>ok</html>"),
      Response(500, "Internal Server Error", TRUE, TRUE, Obj("detail-text", "", ""), ""),
      Response(500, "Internal Server Error", TRUE, TRUE, Obj("", "message-text", ""), ""),
      Response(502, "Bad Gateway", FALSE, FALSE, Null, "<html>502</html>"),
      Response(502, "Bad Gateway", FALSE, FALSE, Null, "") }

RECURSIVE Repeat(_, _)
Repeat(s, n) == IF n = 0 THEN "" ELSE s \o Repeat(s, n - 1)

\* A gateway error page longer than the excerpt postQuery keeps of it
\* (210 characters).
LongText == Repeat("<p>502</p>", 21)

\* The responses a call of postQuery on its own is given: every status
\* below with every JSON body and every non-JSON text below.
CallStatuses ==
    { <<200, "OK">>, <<500, "Internal Server Error">>, <<502, "Bad Gateway">> }

\* <<parses, body>> of a response of content-type application/json.
CallJsonBodies ==
    { <<TRUE, ScenarioPayload>>,
      <<TRUE, Null>>,
      <<FALSE, Null>>,
      <<TRUE, Obj("detail-text", "", "")>>,
      <<TRUE, Obj("", "message-text", "")>>,
      <<TRUE, Obj("detail-text", "message-text", "")>>,
      <<TRUE, Obj("", "", "")>> }

CallTexts == { "", "<html>502</html>", LongText }

CallResponses ==
    Responses
    \cup { Response(st[1], st[2], TRUE, b[1], b[2], "") :
              st \in CallStatuses, b \in CallJsonBodies }
    \cup { Response(st[1], st[2], FALSE, FALSE, Null, t) :
              st \in CallStatuses, t \in CallTexts }


\* How an async call settled: it returned `value`, or threw name/message.
Returned(v) == [threw |-> FALSE, name |-> "", message |-> "", value |-> v]
Thrown(name, message) == [threw |-> TRUE, name |-> name, message |-> message, value |-> Null]

\* settledAs before any postQuery has settled.
NoneSettled == [wasAborted |-> FALSE, wasTimedOut |-> FALSE, threw |-> FALSE, name |-> "none"]

\* settledAs when a postQuery settles as out; wasAborted and wasTimedOut
\* say whether its signal was aborted, and its timeout callback had run,
\* before it settled.
SettledRecord(wasAborted, wasTimedOut, out) ==
    [wasAborted |-> wasAborted, wasTimedOut |-> wasTimedOut,
     threw |-> out.threw, name |-> out.name]

\* `call` when no call of postQuery on its own is made, when one is about to
\* read the body of `response`, and when the definition `def` of postQuery
\* has settled as `out`.
NoCall == [def |-> "none"]
CallInput(response, readOk) ==
    [def |-> "pending", response |-> response, readOk |-> readOk]
CallDone(c, def, out) ==
    [def |-> def, response |-> c.response, readOk |-> c.readOk, out |-> out]

\* `call` when a band function is about to be applied to two scores of one
\* scale, and when `def` has returned band1 for score1 and band2 for score2.
BandInput(scale, score1, score2) ==
    [def |-> "band", scale |-> scale, score1 |-> score1, score2 |-> score2]
BandDone(c, def, band1, band2) ==
    [def |-> def, scale |-> c.scale, score1 |-> c.score1, score2 |-> c.score2,
     band1 |-> band1, band2 |-> band2]

AbortError == Thrown("AbortError", "The user aborted a request.")
TypeErrorFailedToFetch == Thrown("TypeError", "Failed to fetch")

TimeoutMsg == "Request timed out or was cancelled. Please try again."
EmptyBodyMsg == "Backend returned an empty response body."
UnexpectedMsg == "An unexpected error occurred."

(***************************************************************************)
(* String.prototype.trim                                                   *)
(***************************************************************************)
RECURSIVE TrimStart(_)
TrimStart(s) ==
    IF Len(s) > 0 /\ SubSeq(s, 1, 1) = " " THEN TrimStart(SubSeq(s, 2, Len(s))) ELSE s

RECURSIVE TrimEnd(_)
TrimEnd(s) ==
    IF Len(s) > 0 /\ SubSeq(s, Len(s), Len(s)) = " "
    THEN TrimEnd(SubSeq(s, 1, Len(s) - 1)) ELSE s

Trim(s) == TrimEnd(TrimStart(s))

Min(a, b) == IF a <= b THEN a ELSE b

\* Mutant of scoreLevel: the lower bounds are open.
scoreLevelOpenBounds(score) ==
    IF score > 8500 THEN "high"
    ELSE IF score > 7000 THEN "medium"
    ELSE "low"

\* Mutant of scoreLevel: a score above 1 is not taken for a similarity.
scoreLevelRangeChecked(score) ==
    IF score >= 8500 /\ score <= 10000 THEN "high"
    ELSE IF score >= 7000 /\ score <= 10000 THEN "medium"
    ELSE "low"

\* Mutant of scoreColor: the colours of the two lower bands are exchanged.
scoreColorExchanged(score) ==
    IF score >= 85 THEN "#22C55E"
    ELSE IF score >= 70 THEN "#EF4444"
    ELSE "#F59E0B"

(***************************************************************************)
(* ChunksSection.jsx, scoreLevel, on ten-thousandths: 0.85 is 8500 and     *)
(* 0.70 is 7000.                                                           *)
(***************************************************************************)
scoreLevel(score) ==
    IF score >= 8500 THEN "high"
    ELSE IF score >= 7000 THEN "medium"
    ELSE "low"

(***************************************************************************)
(* RecordsTable.jsx, scoreColor.                                           *)
(***************************************************************************)
scoreColor(score) ==
    IF score >= 85 THEN "#22C55E"
    ELSE IF score >= 70 THEN "#F59E0B"
    ELSE "#EF4444"

\* What ChunksSection and RecordsTable show of a result: the level of each
\* chunk's ScoreBadge and the fill colour of each record's score bar.
ChunkLevels(res) == [i \in DOMAIN res.retrieved_chunks |-> scoreLevel(res.retrieved_chunks[i])]
RecordColors(res) == [i \in DOMAIN res.structured_records |-> scoreColor(res.structured_records[i])]

(***************************************************************************)
(* api.js, postQuery.  The en dash of the source's messages is written    *)
(* as an ASCII hyphen.                                                     *)
(***************************************************************************)

\* lines 24-31: the catch around `await fetch(...)`.
PostQueryFetchRejected(networkErr) ==
    IF networkErr.name = "AbortError" THEN networkErr
    ELSE Thrown("Error",
                "Network error - could not reach the backend. Is it deployed and running? ("
                \o networkErr.message \o ")")

\* lines 36-41: body = await response.json(), null when json() rejects.
\* readOk is whether the body stream was read to its end.
JsonBody(response, readOk) ==
    IF response.json /\ readOk /\ response.parses THEN response.body ELSE Null

\* line 44: text = await response.text().catch(() => '')
TextBody(response, readOk) == IF readOk THEN response.text ELSE ""

\* lines 33-64: postQuery from the resolution of fetch() to its end.
PostQueryBody(response, readOk) ==
    LET body == JsonBody(response, readOk)
        text == TextBody(response, readOk)
        http == "HTTP " \o ToString(response.status)
    IN  IF ~response.json /\ ~response.ok
        THEN Thrown("Error",
                    http \o " - Backend returned a non-JSON response. "
                    \o (IF text # "" THEN SubSeq(text, 1, Min(200, Len(text)))
                        ELSE response.statusText))
        ELSE IF ~response.ok
        THEN Thrown("Error",
                    IF ~body.isNull /\ body.detail # "" THEN body.detail
                    ELSE IF ~body.isNull /\ body.message # "" THEN body.message
                    ELSE http \o " - " \o response.statusText)
        ELSE IF body.isNull
        THEN Thrown("Error", EmptyBodyMsg)
        ELSE Returned(body)


(***************************************************************************)
(* App.jsx                                                                 *)
(***************************************************************************)

\* The three useState cells the render dispatch reads.
(***************************************************************************)
(* ErrorCard.jsx: the text shown for `message`.                            *)
(***************************************************************************)
ErrorCardText(message) ==
    IF message # "" THEN message ELSE "An unexpected error occurred. Please try again."

(***************************************************************************)
(* api.js, the second definition of postQuery (lines 90-110), from the     *)
(* Response on.  response.json() parses the body whatever the content      *)
(* type; a read that does not reach the end of the body is one cut by      *)
(* abort().                                                                *)
(***************************************************************************)
ResponseJson(response, readOk) ==
    IF ~readOk THEN AbortError
    ELSE IF response.parses THEN Returned(response.body)
    ELSE Thrown("SyntaxError", "Unexpected end of JSON input")

PostQueryBodySecond(response, readOk) ==
    LET err == ResponseJson(response, readOk)
        fallback == "HTTP " \o ToString(response.status) \o " - " \o response.statusText
    IN  IF ~response.ok
        THEN Thrown("Error",
                    IF ~err.threw /\ ~err.value.isNull /\ err.value.detail # ""
                    THEN err.value.detail ELSE fallback)
        ELSE err

UI == [loading |-> loading, result |-> result, error |-> error]

\* Mutant of SubmitAccepted: the guard forgets `loading`.
\* Mutant of SetQueryUI: editing the query dismisses the error.
SetQueryUIDismissesError(ui) == [ui EXCEPT !.error = NoError]

\* line 131: onChange calls setQuery and no other setter.
SetQueryUI(ui) == ui

SubmitAcceptedWhileLoading == Trim(query) # ""

\* line 50: `if (!query.trim() || loading) return` does not return.
SubmitAccepted == Trim(query) # "" /\ ~loading

\* Mutant of SubmitAborts: line 53 aborts the stored handle only while
\* loading, which an accepted submit never is.
SubmitAbortsOnlyWhileLoading == IF loading THEN abortRef ELSE 0

\* line 53: the handle `abortRef.current?.abort()` aborts (0: none).
SubmitAborts == abortRef

\* lines 57-59: setLoading(true); setError(null); setResult(null)
SubmitUI(ui) == [ui EXCEPT !.loading = TRUE, !.error = NoError, !.result = Null]

\* Mutant of TimeoutAborts: the callback aborts the stored handle.
TimeoutAbortsStored(r) == abortRef

\* line 62: `() => controller.abort()`, the controller whose signal the
\* timeout callback of request r aborts: the one handleSubmit of r created.
TimeoutAborts(r) == r

\* Mutant of SubmitQuery: the query is passed as typed.
SubmitQueryUntrimmed == query

\* line 65: the first argument of postQuery.
SubmitQuery == Trim(query)

\* Mutant of SubmitTimer: no timeout is armed.
SubmitTimerNotArmed == NoTimer

\* line 62: the delay setTimeout is given.
SubmitTimer == QUERY_TIMEOUT_MS

\* Mutant of SettleUI: the catch has no AbortError case.
SettleUIWithoutAbortCase(ui, out) ==
    IF ~out.threw THEN [ui EXCEPT !.result = out.value]
    ELSE [ui EXCEPT !.error = IF out.message # "" THEN out.message ELSE UnexpectedMsg]

\* lines 66-72: the try body after the await, and the catch.
SettleUI(ui, out) ==
    IF ~out.threw THEN [ui EXCEPT !.result = out.value]
    ELSE IF out.name = "AbortError" THEN [ui EXCEPT !.error = TimeoutMsg]
    ELSE [ui EXCEPT !.error = IF out.message # "" THEN out.message ELSE UnexpectedMsg]

\* Mutant of FinallyUI: the finally block forgets setLoading(false).
FinallyUIForgotten(ui) == ui

\* lines 73-76, setLoading(false) of the finally block.
FinallyUI(ui) == [ui EXCEPT !.loading = FALSE]

\* Mutant of ClearTimeout: the finally block forgets clearTimeout.
ClearTimeoutForgotten(tm, r) == tm

\* line 74: clearTimeout(timeoutId) of the finally block of request r.
ClearTimeout(tm, r) == [tm EXCEPT ![r] = NoTimer]

\* lines 64-76: handleSubmit of a request from the settlement of postQuery on.
AfterPostQuery(ui, out) == FinallyUI(SettleUI(ui, out))

\* lines 83-85: setResult(null); setError(null); setLoading(false)
ClearUI(ui) == [ui EXCEPT !.result = Null, !.error = NoError, !.loading = FALSE]

\* lines 98-99: setResult(null); setError(null)
FillExampleUI(ui) == [ui EXCEPT !.result = Null, !.error = NoError]

(***************************************************************************)
(* controller.abort() on handle r (0: no handle, nothing happens).         *)
(* A pending fetch() is rejected at once, and handleSubmit of r runs its   *)
(* catch and finally in the microtasks of the same task.  A body read in   *)
(* progress is errored; its rejection is delivered later.  A signal that   *)
(* is already aborted, or whose request has settled, changes nothing more. *)
(***************************************************************************)

\* Mutant of SignalPassed: fetch() is called without `signal`.
SignalNotPassed == FALSE

\* api.js line 22 and App.jsx line 65: the controller's signal is the one
\* postQuery hands to fetch().
SignalPassed == TRUE

AbortRejectsFetch(r) == SignalPassed /\ r # 0 /\ ~aborted[r] /\ phase[r] = "fetch"
AbortErrorsBody(r) == SignalPassed /\ r # 0 /\ ~aborted[r] /\ phase[r] = "body"

AbortedAfterAbort(r) == IF r = 0 THEN aborted ELSE [aborted EXCEPT ![r] = TRUE]

PhaseAfterAbort(r) ==
    IF AbortRejectsFetch(r) THEN [phase EXCEPT ![r] = "settled"]
    ELSE IF AbortErrorsBody(r) THEN [phase EXCEPT ![r] = "bodyAborted"]
    ELSE phase

TimerAfterAbort(tm, r) == IF AbortRejectsFetch(r) THEN ClearTimeout(tm, r) ELSE tm

SettledAfterAbort(r, byTimer) ==
    IF AbortRejectsFetch(r)
    THEN SettledRecord(TRUE, byTimer, PostQueryFetchRejected(AbortError))
    ELSE settledAs

UIAfterAbort(ui, r) ==
    IF AbortRejectsFetch(r)
    THEN AfterPostQuery(ui, PostQueryFetchRejected(AbortError))
    ELSE ui

(***************************************************************************)
(* LoadingCard.jsx, useProgressiveSteps, and its mounting by App           *)
(* (part_002:192, `{loading && <LoadingCard />}`).                         *)
(***************************************************************************)

\* Mutant of TickUI: the tick that finds the last stage ends loading.
TickUIEndsLoading(ui) ==
    [ui EXCEPT !.loading = ui.loading /\ active < STEPS_LENGTH - 1]

\* lines 18-20: the interval callback calls setActive and no setter of App.
TickUI(ui) == ui

\* Mutant of TickActive: the index wraps to the first stage.
TickActiveWraps(prev) == (prev + 1) % STEPS_LENGTH

\* line 19: the updater given to setActive.
TickActive(prev) == IF prev < STEPS_LENGTH - 1 THEN prev + 1 ELSE prev

\* line 15: useState(0) of a LoadingCard that mounts.
MountActive == 0

\* Mutant of ClearInterval: the effect returns no cleanup.
ClearIntervalForgotten(iv) == iv

\* line 21: the cleanup of the effect, run when the LoadingCard unmounts.
ClearInterval(iv) == NoTimer

\* The render that follows the state writes of a step: the LoadingCard is
\* mounted when loading becomes true and unmounted when it becomes false.
RenderLoadingCard(isLoading) ==
    IF isLoading /\ ~loading
    THEN active' = MountActive /\ interval' = STEP_INTERVAL_MS
    ELSE IF ~isLoading /\ loading
    THEN active' = Unmounted /\ interval' = ClearInterval(interval)
    ELSE UNCHANGED <<active, interval>>

SetUI(ui) ==
    /\ loading' = ui.loading /\ result' = ui.result /\ error' = ui.error
    /\ RenderLoadingCard(ui.loading)

(***************************************************************************)
(* Initial state: the component as mounted.                                *)
(***************************************************************************)
AppInit ==
    /\ query = ""
    /\ loading = FALSE
    /\ result = Null
    /\ error = NoError
    /\ abortRef = 0
    /\ nreq = 0
    /\ aborted = [r \in Req |-> FALSE]
    /\ timer = [r \in Req |-> NoTimer]
    /\ phase = [r \in Req |-> "none"]
    /\ sentQuery = ""
    /\ settledAs = NoneSettled
    /\ timedOut = [r \in Req |-> FALSE]
    /\ cleared = FALSE
    /\ lastOp = "mount"
    /\ active = Unmounted
    /\ interval = NoTimer

Init == AppInit /\ call = NoCall

(***************************************************************************)
(* User events                                                             *)
(***************************************************************************)

\* line 131: onChange of the textarea, which is disabled while loading.
SetQuery(text) ==
    /\ ~loading
    /\ query' = text
    /\ SetUI(SetQueryUI(UI))
    /\ lastOp' = "setQuery"
    /\ UNCHANGED <<abortRef, nreq, aborted, timer, phase,
                   sentQuery, settledAs, timedOut, cleared, call>>

\* lines 96-100: the example pills are disabled while loading and the
\* example cards are rendered only when not loading.
FillExample(text) ==
    /\ ~loading
    /\ query' = text
    /\ SetUI(FillExampleUI(UI))
    /\ lastOp' = "fillExample"
    /\ UNCHANGED <<abortRef, nreq, aborted, timer, phase, sentQuery,
                   settledAs, timedOut, cleared, call>>

\* lines 49-50: handleSubmit returns at once.
SubmitIgnored ==
    /\ ~SubmitAccepted
    /\ lastOp' = "submitIgnored"
    /\ UNCHANGED <<query, loading, result, error, abortRef, nreq, aborted, timer,
                   phase, sentQuery, settledAs, timedOut, cleared, active,
                   interval, call>>

\* lines 49-65: handleSubmit up to `await postQuery(...)`, then the
\* microtasks of a request that line 53 aborted while its fetch was pending.
Submit ==
    /\ SubmitAccepted
    /\ nreq < MaxRequests
    /\ LET prev == SubmitAborts
           new == nreq + 1
       IN  /\ nreq' = new
           /\ abortRef' = new
           /\ aborted' = AbortedAfterAbort(prev)
           /\ phase' = [PhaseAfterAbort(prev) EXCEPT ![new] = "fetch"]
           /\ timer' = [TimerAfterAbort(timer, prev) EXCEPT ![new] = SubmitTimer]
           /\ settledAs' = SettledAfterAbort(prev, FALSE)
           /\ sentQuery' = SubmitQuery
           /\ SetUI(UIAfterAbort(SubmitUI(UI), prev))
    /\ cleared' = FALSE
    /\ lastOp' = "submit"
    /\ UNCHANGED <<query, timedOut, call>>

\* lines 80-86: handleClear, then the microtasks of the request it aborted
\* while its fetch was pending.
Clear ==
    /\ aborted' = AbortedAfterAbort(abortRef)
    /\ phase' = PhaseAfterAbort(abortRef)
    /\ timer' = TimerAfterAbort(timer, abortRef)
    /\ settledAs' = SettledAfterAbort(abortRef, FALSE)
    /\ query' = ""
    /\ SetUI(UIAfterAbort(ClearUI(UI), abortRef))
    /\ cleared' = TRUE
    /\ lastOp' = "clear"
    /\ UNCHANGED <<abortRef, nreq, sentQuery, timedOut, call>>

(***************************************************************************)
(* Timer and network events                                                *)
(***************************************************************************)

\* line 62: the timeout callback of request r, `() => controller.abort()`.
Timeout(r) ==
    /\ timer[r] # NoTimer
    /\ LET c == TimeoutAborts(r)
       IN  /\ timedOut' = [timedOut EXCEPT ![c] = ~AbortRejectsFetch(c)]
           /\ aborted' = AbortedAfterAbort(c)
           /\ phase' = PhaseAfterAbort(c)
           /\ timer' = TimerAfterAbort([timer EXCEPT ![r] = NoTimer], c)
           /\ settledAs' = SettledAfterAbort(c, TRUE)
           /\ SetUI(UIAfterAbort(UI, c))
    /\ lastOp' = "timeout"
    /\ UNCHANGED <<query, abortRef, nreq, sentQuery, cleared, call>>

\* api.js line 18: fetch() resolves with a Response; postQuery goes on to
\* read the body (line 38 or line 44).  Nothing acts on the Response before
\* the read of its body settles, so the state does not hold it: the events
\* that settle the read say which Response it was.
ResponseArrives(r) ==
    /\ phase[r] = "fetch"
    /\ phase' = [phase EXCEPT ![r] = "body"]
    /\ lastOp' = "response"
    /\ UNCHANGED <<query, loading, result, error, abortRef, nreq, aborted, timer,
                   sentQuery, settledAs, timedOut, cleared, active, interval, call>>

\* LoadingCard.jsx lines 18-20: the interval callback.  setActive on a
\* component that is no longer mounted does nothing.
Tick ==
    /\ interval # NoTimer
    /\ active' = IF active = Unmounted THEN active ELSE TickActive(active)
    /\ loading' = TickUI(UI).loading
    /\ result' = TickUI(UI).result
    /\ error' = TickUI(UI).error
    /\ lastOp' = "tick"
    /\ UNCHANGED <<query, abortRef, nreq, aborted, timer,
                   phase, sentQuery, settledAs, timedOut, cleared, interval, call>>

\* postQuery of request r settles as `out`; handleSubmit of r runs on.
Settle(r, out) ==
    /\ phase' = [phase EXCEPT ![r] = "settled"]
    /\ timer' = ClearTimeout(timer, r)
    /\ settledAs' = SettledRecord(aborted[r], timedOut[r], out)
    /\ timedOut' = [timedOut EXCEPT ![r] = FALSE]
    /\ SetUI(AfterPostQuery(UI, out))
    /\ UNCHANGED <<query, abortRef, nreq, aborted, sentQuery, cleared, call>>

\* api.js lines 18-31: fetch() rejects with a network failure.
FetchFails(r) ==
    /\ phase[r] = "fetch"
    /\ Settle(r, PostQueryFetchRejected(TypeErrorFailedToFetch))
    /\ lastOp' = "fetchFails"

\* api.js lines 38/44: the body has been read to its end.
BodyArrives(r, response) ==
    /\ phase[r] = "body"
    /\ Settle(r, PostQueryBody(response, TRUE))
    /\ lastOp' = "body"

\* api.js lines 38-41/44: json() or text() rejects, because the connection
\* broke or because the signal was aborted while the body was being read.
BodyReadRejects(r, response) ==
    /\ phase[r] \in {"body", "bodyAborted"}
    /\ Settle(r, PostQueryBody(response, FALSE))
    /\ lastOp' = "bodyRejects"

Next ==
    \/ \E text \in TypedTexts : SetQuery(text)
    \/ \E text \in EXAMPLE_QUERIES : FillExample(text)
    \/ SubmitIgnored
    \/ Submit
    \/ Clear
    \/ \E r \in Req : Timeout(r)
    \/ Tick
    \/ \E r \in Req : ResponseArrives(r)
    \/ \E r \in Req : FetchFails(r)
    \/ \E r \in Req, response \in Responses : BodyArrives(r, response)
    \/ \E r \in Req, response \in Responses : BodyReadRejects(r, response)

Spec == Init /\ [][Next]_vars

\* The browser runs what it has scheduled itself: an armed timeout expires
\* (part_002:62), and the rejection of a body read that abort() has cut is
\* delivered.  Nothing is assumed of the user or of the Query Service.
TimerExpires == \E r \in Req : Timeout(r)
AbortedReadRejects ==
    \E r \in Req, response \in Responses :
        phase[r] = "bodyAborted" /\ BodyReadRejects(r, response)

SpecFair ==
    /\ Init /\ [][Next]_vars
    /\ WF_vars(TimerExpires)
    /\ WF_vars(AbortedReadRejects)


\* The Query Service stub that never resolves: only the user and the
\* timers act.
NextSilent ==
    \/ \E text \in TypedTexts : SetQuery(text)
    \/ \E text \in EXAMPLE_QUERIES : FillExample(text)
    \/ SubmitIgnored
    \/ Submit
    \/ Clear
    \/ \E r \in Req : Timeout(r)
    \/ Tick

SpecSilent == Init /\ [][NextSilent]_vars

(***************************************************************************)
(* postQuery on its own: each definition of api.js applied to a Response   *)
(* whose body read ends (readOk) or is cut.                                *)
(***************************************************************************)
InitCalls ==
    /\ AppInit
    /\ \E response \in CallResponses, readOk \in BOOLEAN :
          call = CallInput(response, readOk)

\* lines 13-65, from line 33 on.
CallPostQuery ==
    /\ call.def = "pending"
    /\ call' = CallDone(call, "first", PostQueryBody(call.response, call.readOk))
    /\ UNCHANGED appVars

\* lines 90-110, from line 100 on.
CallPostQuerySecond ==
    /\ call.def = "pending"
    /\ call' = CallDone(call, "second", PostQueryBodySecond(call.response, call.readOk))
    /\ UNCHANGED appVars

NextCalls == CallPostQuery \/ CallPostQuerySecond

SpecCalls == InitCalls /\ [][NextCalls]_vars

(***************************************************************************)
(* The band functions on their own: scoreLevel of ChunksSection.jsx on     *)
(* similarity scores and scoreColor of RecordsTable.jsx on compliance      *)
(* scores, each applied to two scores of its scale.                        *)
(***************************************************************************)

\* Compliance scores: every whole number from below 0 to above 100.
ComplianceScores == (0 - ScoreMargin) .. (100 + ScoreMargin)

\* Similarity scores in ten-thousandths: every hundredth from below 0 to
\* above 1, and the scores just below, at and just above each threshold.
SimilarityScores ==
    { 100 * k : k \in (0 - ScoreMargin) .. (100 + ScoreMargin) }
    \cup { 6999, 7000, 7001, 8499, 8500, 8501, 9100 }

InitBands ==
    /\ AppInit
    /\ \/ \E score1 \in SimilarityScores, score2 \in SimilarityScores :
             call = BandInput("similarity", score1, score2)
       \/ \E score1 \in ComplianceScores, score2 \in ComplianceScores :
             call = BandInput("compliance", score1, score2)

\* part_000:12, ScoreBadge of two chunks.
CallScoreLevel ==
    /\ call.def = "band" /\ call.scale = "similarity"
    /\ call' = BandDone(call, "scoreLevel", scoreLevel(call.score1), scoreLevel(call.score2))
    /\ UNCHANGED appVars

\* RecordsTable.jsx:60, RecordRow of two records.
CallScoreColor ==
    /\ call.def = "band" /\ call.scale = "compliance"
    /\ call' = BandDone(call, "scoreColor", scoreColor(call.score1), scoreColor(call.score2))
    /\ UNCHANGED appVars

NextBands == CallScoreLevel \/ CallScoreColor

SpecBands == InitBands /\ [][NextBands]_vars

(***************************************************************************)
(* Render dispatch, App.jsx lines 102 and 191-207                          *)
(***************************************************************************)
hasResult == result # Null /\ ~loading
LoadingView == loading
ErrorView == error # NoError /\ ~loading
ResultsView == hasResult
WelcomeView == ~loading /\ error = NoError /\ result = Null

RenderedViews ==
    {v \in {"loading", "error", "results", "welcome"} :
        \/ v = "loading" /\ LoadingView
        \/ v = "error" /\ ErrorView
        \/ v = "results" /\ ResultsView
        \/ v = "welcome" /\ WelcomeView}

(***************************************************************************)
(* Vocabulary of the properties                                            *)
(***************************************************************************)
Idle == ~loading /\ result = Null /\ error = NoError
Pending == loading /\ result = Null /\ error = NoError
Failed == ~loading /\ result = Null /\ error # NoError
Succeeded == ~loading /\ result # Null /\ error = NoError

\* The step settles postQuery of request r.
Settles(r) == phase[r] # "settled" /\ phase'[r] = "settled"

\* The step is the timeout callback of request r.
TimerFires(r) == lastOp' = "timeout" /\ timer[r] # NoTimer /\ timer'[r] = NoTimer

\* The step is an accepted handleSubmit.
AcceptsSubmit == nreq' = nreq + 1

\* Handle r is live: not aborted, its request unsettled.
Live(r) == ~aborted[r] /\ phase[r] \in {"fetch", "body"}

(***************************************************************************)
(* C1: once a later query has been accepted, the settlement of an earlier  *)
(* request changes none of loading, result and error: in a step that       *)
(* settles a request other than the latest one, the three are unchanged,   *)
(* or, when the step is itself the accepting submit, are what the submit   *)
(* alone sets (Pending).                                                   *)
(***************************************************************************)
C1_StaleSettlementChangesNothing ==
    [][\A r \in Req :
          (Settles(r) /\ r # abortRef') =>
              IF AcceptsSubmit
              THEN loading' /\ result' = Null /\ error' = NoError
              ELSE UNCHANGED <<loading, result, error>>]_vars

(***************************************************************************)
(* C2: after handleClear the state is Idle and stays Idle until the next   *)
(* accepted submit.                                                        *)
(***************************************************************************)
C2_IdleAfterClear == cleared => Idle

(***************************************************************************)
(* C3: in every reachable state exactly one of the four views (welcome,    *)
(* loading, error, results) is rendered.                                   *)
(***************************************************************************)
C3_ExactlyOneView == Cardinality(RenderedViews) = 1

(***************************************************************************)
(* C4: a handleSubmit with an empty or whitespace-only query, or while     *)
(* loading, changes nothing: not the lifecycle state, not the stored       *)
(* handle, no handle is aborted, no timer is started, postQuery is not     *)
(* called.                                                                 *)
(***************************************************************************)
C4_RejectedSubmitIsNoOp ==
    [][(lastOp' \in {"submit", "submitIgnored"} /\ (Trim(query) = "" \/ loading)) =>
          UNCHANGED <<query, loading, result, error, abortRef, nreq, aborted, timer,
                      phase, sentQuery, settledAs, timedOut, cleared>>]_vars

\* A handleSubmit was ignored while a request was pending.
C4_Witness ==
    /\ lastOp = "submitIgnored"
    /\ loading
    /\ Trim(query) # ""
    /\ \E r \in Req : Live(r) /\ timer[r] # NoTimer

(***************************************************************************)
(* C5: at most one abort handle is live at any moment, and an accepted     *)
(* submit that replaces the handle in abortRef leaves the previous handle  *)
(* aborted.                                                                *)
(***************************************************************************)
C5_AtMostOneLiveHandle ==
    /\ [](Cardinality({r \in Req : Live(r)}) <= 1)
    /\ [][(AcceptsSubmit /\ abortRef # 0) => aborted'[abortRef]]_vars

\* A submit has just replaced a handle whose request is still unsettled:
\* the old handle is aborted, the new one is live.
C5_Witness ==
    /\ lastOp = "submit"
    /\ nreq >= 2
    /\ phase[nreq - 1] = "bodyAborted"
    /\ Live(nreq)

(***************************************************************************)
(* C6 (under SpecSilent, the Query Service never responds): while the      *)
(* request of the latest submit is in flight the state is Pending and its  *)
(* 90000 ms timer is armed; when a timeout callback runs the handle is     *)
(* aborted, the state becomes Failed with the timeout message, and no      *)
(* timeout timer remains armed.                                            *)
(***************************************************************************)
C6_SilentServiceTimesOut ==
    /\ []((abortRef # 0 /\ phase[abortRef] = "fetch") =>
            (Pending /\ timer[abortRef] = 90000 /\ ~aborted[abortRef]))
    /\ [][lastOp' = "timeout" =>
            /\ aborted'[abortRef]
            /\ ~loading'
            /\ result' = Null
            /\ error' = "Request timed out or was cancelled. Please try again."
            /\ \A r \in Req : timer'[r] = NoTimer]_vars

\* The timer of a request nobody answered has fired.
C6_Witness ==
    /\ lastOp = "timeout"
    /\ Failed
    /\ error = TimeoutMsg
    /\ phase[abortRef] = "settled"

(***************************************************************************)
(* C7: a request whose settlement has been handled has no armed timeout    *)
(* timer, and no timeout callback runs for such a request.                 *)
(***************************************************************************)
C7_SettledHasNoTimer ==
    /\ [](\A r \in Req : phase[r] = "settled" => timer[r] = NoTimer)
    /\ [][\A r \in Req : TimerFires(r) => phase[r] # "settled"]_vars

\* A request has settled by a response being handled (its timer had been
\* armed and never fired) while a later request's timer is armed.
C7_Witness ==
    /\ \E r \in Req : phase[r] = "settled" /\ timer[r] = NoTimer
    /\ settledAs.name \in {"", "Error"}
    /\ ~settledAs.wasTimedOut
    /\ \E r \in Req : timer[r] # NoTimer

(***************************************************************************)
(* C8: a postQuery whose handle was aborted before it returned settles as  *)
(* a cancelled failure (AbortError).                                      *)
(***************************************************************************)
C8_AbortedSettlesAsAbortError ==
    settledAs.wasAborted => (settledAs.threw /\ settledAs.name = "AbortError")

C10_AcceptedSubmitIsPending ==
    [][AcceptsSubmit =>
          /\ loading' /\ result' = Null /\ error' = NoError
          /\ timer'[nreq'] = 90000
          /\ \A r \in Req \ {nreq'} : timer'[r] \in {timer[r], NoTimer}]_vars

(***************************************************************************)
(* C11: when the request of the stored handle settles successfully the     *)
(* state becomes Succeeded with exactly the response payload (loading      *)
(* false, error null) and the request's timer is cleared; the payload of   *)
(* one chunk of similarity 0.91 and one record of compliance 73 is shown   *)
(* with the chunk High and the record Medium (amber).                      *)
(***************************************************************************)
C11_SuccessIsSucceeded ==
    [][\A r \in Req :
          (Settles(r) /\ r = abortRef /\ ~settledAs'.threw) =>
              /\ Succeeded'
              /\ result' = ScenarioPayload
              /\ timer'[r] = NoTimer
              /\ ChunkLevels(result') = <<"high">>
              /\ RecordColors(result') = <<"#F59E0B">>]_vars

(***************************************************************************)
(* C12: every failure of the request of the stored handle (network error,  *)
(* HTTP error, non-JSON response, empty body, timeout) ends in Failed with *)
(* a non-empty message, shown non-empty by the error card, and loading     *)
(* false; from that state a submit with a non-blank query is accepted.     *)
(***************************************************************************)
C12_FailureIsFailed ==
    [][\A r \in Req :
          (Settles(r) /\ r = abortRef' /\ settledAs'.threw) =>
              /\ Failed'
              /\ error' # ""
              /\ ErrorCardText(error') # ""
              /\ (Trim(query') # "" => SubmitAccepted')]_vars

\* The request of the stored handle failed with a network error, and the
\* query is still in the textarea.
C12_Witness ==
    /\ abortRef # 0
    /\ phase[abortRef] = "settled"
    /\ lastOp = "fetchFails"
    /\ Failed
    /\ Trim(query) # ""
    /\ SubmitAccepted

\* A call of postQuery on its own has settled.
Called == call.def \in {"first", "second"}

StartsWith(s, prefix) ==
    Len(s) >= Len(prefix) /\ SubSeq(s, 1, Len(prefix)) = prefix
EndsWith(s, suffix) ==
    Len(s) >= Len(suffix) /\ SubSeq(s, Len(s) - Len(suffix) + 1, Len(s)) = suffix

(***************************************************************************)
(* C13: a response whose body is not JSON (content type other than         *)
(* application/json), whatever its status, makes postQuery fail with a     *)
(* message that carries the status code and the body text cut to its       *)
(* first 200 characters.                                                   *)
(***************************************************************************)
C13_NonJsonIsReported ==
    (Called /\ ~call.response.json /\ call.readOk) =>
        LET text == call.response.text
        IN  /\ call.out.threw
            /\ StartsWith(call.out.message, "HTTP " \o ToString(call.response.status))
            /\ EndsWith(call.out.message, SubSeq(text, 1, Min(200, Len(text))))
            /\ Len(text) > 200 => ~EndsWith(call.out.message, SubSeq(text, 1, 201))

(***************************************************************************)
(* C14: for a non-2xx response with a JSON body the error message is the   *)
(* body's detail if it has one, else its message if it has one, else       *)
(* 'HTTP <status> - <statusText>'; a non-2xx response never yields         *)
(* success.                                                                *)
(***************************************************************************)
C14_HttpErrorMessage ==
    (Called /\ ~call.response.ok) =>
        LET response == call.response
            body == IF response.parses THEN response.body ELSE Null
        IN  /\ call.out.threw
            /\ (response.json /\ call.readOk) =>
                  call.out.message =
                      IF body.detail # "" THEN body.detail
                      ELSE IF body.message # "" THEN body.message
                      ELSE "HTTP " \o ToString(response.status) \o " - "
                           \o response.statusText

\* The body of the response is empty or absent: no text at all, or the
\* JSON value null.
EmptyBody(response) ==
    \/ response.json /\ (~response.parses \/ response.body.isNull)
    \/ ~response.json /\ response.text = ""

(***************************************************************************)
(* C15: a 2xx response with an empty or absent body is never returned as   *)
(* a success: postQuery fails with 'Backend returned an empty response     *)
(* body.'                                                                  *)
(***************************************************************************)
C15_EmptyBodyIsFailure ==
    (Called /\ call.response.ok /\ call.readOk /\ EmptyBody(call.response)) =>
        /\ call.out.threw
        /\ call.out.message = EmptyBodyMsg

\* postQuery is called for request r in this step.
Invokes(r) == phase[r] = "none" /\ phase'[r] # "none"

(***************************************************************************)
(* C16: postQuery is called exactly once per accepted submit, with the     *)
(* trimmed query and the signal of the controller that submit stored, and  *)
(* by nothing else: no failure, timeout or cancellation calls it again.    *)
(***************************************************************************)
C16_OneInvocationPerSubmit ==
    [][/\ \A r \in Req :
            Invokes(r) =>
               /\ AcceptsSubmit
               /\ lastOp' = "submit"
               /\ r = nreq' /\ abortRef' = r
               /\ phase'[r] = "fetch"
               /\ sentQuery' = Trim(query)
       /\ AcceptsSubmit => Cardinality({r \in Req : Invokes(r)}) = 1
       /\ \A r \in Req : (phase[r] # "none" /\ phase'[r] = "fetch") => phase[r] = "fetch"
       /\ sentQuery' # sentQuery => AcceptsSubmit
       /\ Cardinality({r \in Req : phase'[r] # "none"}) = nreq']_vars

\* " q " was submitted and postQuery was called with "q"; an earlier
\* request failed before and was not called again.
C16_Witness ==
    /\ lastOp = "submit"
    /\ query = " q "
    /\ sentQuery = "q"
    /\ nreq = 2
    /\ phase[2] = "fetch"
    /\ phase[1] = "settled"

\* loading, result or error changes in this step.
UIChanges == <<loading, result, error>>' # <<loading, result, error>>

C18_ClearIsIdempotent ==
    [][lastOp' = "clear" =>
          /\ (abortRef = 0 \/ phase[abortRef] = "settled") =>
                /\ phase' = phase
                /\ settledAs' = settledAs
                /\ Idle'
          /\ lastOp = "clear" =>
                UNCHANGED <<query, loading, result, error, abortRef, nreq, aborted,
                            timer, phase, sentQuery, settledAs, timedOut>>]_vars

\* The stage index rises in this step.
StageRises == active' > active

C20_StageStopsAndRestarts ==
    [][/\ (Pending /\ ~Pending') => interval' = NoTimer
       /\ ~Pending' => interval' = NoTimer
       /\ lastOp' = "tick" => (Pending /\ Pending')
       /\ (~Pending /\ Pending') => (active' = 0 /\ interval' = 2200)]_vars

\* A second Pending period has just begun, at stage 0, after a first one
\* that ended in a failure.
C20_Witness ==
    /\ Pending
    /\ lastOp = "submit"
    /\ nreq = 2
    /\ active = 0
    /\ phase[1] = "settled"
    /\ settledAs.threw

\* The step is a backend event: response headers, a network failure, or the
\* end or failure of a body read.
BackendEvent == lastOp' \in {"response", "fetchFails", "body", "bodyRejects"}

(***************************************************************************)
(* C21: a stage tick leaves loading, result, error, the stored abort       *)
(* handle and the timeout timers unchanged (and aborts and settles no      *)
(* request); a backend event changes the stage index only by ending the    *)
(* Pending period.                                                         *)
(***************************************************************************)
C21_StageDecoupled ==
    [][/\ lastOp' = "tick" =>
             UNCHANGED <<loading, result, error, abortRef, timer, aborted, phase>>
       /\ (BackendEvent /\ active' # active) => (Pending /\ ~Pending')
       /\ (BackendEvent /\ Pending /\ Pending') => UNCHANGED <<active, interval>>]_vars

\* The interval ticked to stage index 3 after the response headers had
\* arrived: the request is still reading its body, its timer still armed.
C21_Witness ==
    /\ lastOp = "tick"
    /\ Pending
    /\ active = 3
    /\ abortRef # 0
    /\ phase[abortRef] = "body"
    /\ timer[abortRef] = 90000

\* A band function has returned; which scale it was.
Banded == call.def \in {"scoreLevel", "scoreColor"}
OnSimilarity == call.def = "scoreLevel"
OnCompliance == call.def = "scoreColor"

\* The bands by name, and their order Low < Medium < High.
High == {"high", "#22C55E"}
Medium == {"medium", "#F59E0B"}
Low == {"low", "#EF4444"}
BandRank(band) == IF band \in High THEN 3 ELSE IF band \in Medium THEN 2 ELSE 1

(***************************************************************************)
(* C22: the thresholds have closed lower bounds: on the similarity scale   *)
(* 0.85 is High, 0.8499 and 0.70 are Medium, 0.6999 is Low; on the         *)
(* compliance scale 85 is High (green), 84 and 70 are Medium (amber), 69   *)
(* is Low (red).                                                           *)
(***************************************************************************)
C22_ClosedLowerBounds ==
    /\ OnSimilarity =>
          /\ call.score1 = 8500 => call.band1 = "high"
          /\ call.score1 \in {8499, 7000} => call.band1 = "medium"
          /\ call.score1 = 6999 => call.band1 = "low"
    /\ OnCompliance =>
          /\ call.score1 = 85 => call.band1 = "#22C55E"
          /\ call.score1 \in {84, 70} => call.band1 = "#F59E0B"
          /\ call.score1 = 69 => call.band1 = "#EF4444"

\* 0.85 and 0.8499 have been banded, High and Medium.
C22_Witness ==
    /\ OnSimilarity
    /\ call.score1 = 8500 /\ call.band1 = "high"
    /\ call.score2 = 8499 /\ call.band2 = "medium"

(***************************************************************************)
(* C23: on each scale the band function is deterministic and monotonic:    *)
(* for scores s1 >= s2 of one scale band(s1) >= band(s2) in the order      *)
(* Low < Medium < High, and equal scores get equal bands.                  *)
(***************************************************************************)
C23_BandsMonotonic ==
    Banded =>
        /\ call.score1 >= call.score2 => BandRank(call.band1) >= BandRank(call.band2)
        /\ call.score1 = call.score2 => call.band1 = call.band2

\* 70 and 69 have been banded on the compliance scale, Medium and Low.
C23_Witness ==
    /\ OnCompliance
    /\ call.score1 = 70 /\ call.band1 \in Medium
    /\ call.score2 = 69 /\ call.band2 \in Low

(***************************************************************************)
(* C24: the band function is total: every score gets one of the three      *)
(* bands, a score above the scale maximum (above 1, above 100) gets High   *)
(* and a score below 0 gets Low.                                           *)
(***************************************************************************)
C24_BandsTotal ==
    /\ OnSimilarity =>
          /\ call.band1 \in {"high", "medium", "low"}
          /\ call.score1 > 10000 => call.band1 = "high"
          /\ call.score1 < 0 => call.band1 = "low"
    /\ OnCompliance =>
          /\ call.band1 \in {"#22C55E", "#F59E0B", "#EF4444"}
          /\ call.score1 > 100 => call.band1 = "#22C55E"
          /\ call.score1 < 0 => call.band1 = "#EF4444"

\* A similarity above 1 and one below 0 have been banded, High and Low.
C24_Witness ==
    /\ OnSimilarity
    /\ call.score1 > 10000 /\ call.band1 = "high"
    /\ call.score2 < 0 /\ call.band2 = "low"

(***************************************************************************)
(* C25: a timeout timer aborts only the handle of the request it was       *)
(* started for: in any sequence of submits and clears the expiry of an     *)
(* earlier request's timer never aborts (or settles, or disarms the timer  *)
(* of) a later request.                                                    *)
(***************************************************************************)
C25_TimerAbortsOwnHandle ==
    [][lastOp' = "timeout" =>
          \E r \in Req :
             /\ TimerFires(r)
             /\ \A q \in Req \ {r} :
                   /\ aborted'[q] = aborted[q]
                   /\ phase'[q] = phase[q]
                   /\ timer'[q] = timer[q]]_vars

\* The timer of request 1, aborted by clear while its body was read, has
\* expired while request 2 is in flight: request 2 is not aborted.
C25_Witness ==
    /\ lastOp = "timeout"
    /\ nreq = 2 /\ abortRef = 2
    /\ timer[1] = NoTimer /\ phase[1] = "bodyAborted"
    /\ Live(2) /\ timer[2] = 90000

(***************************************************************************)
(* C26: loading is true exactly while the most recently accepted request   *)
(* is unsettled and its handle is not aborted: never true with no such     *)
(* request outstanding, never false while such a request is in flight.     *)
(***************************************************************************)
C26_LoadingIffInFlight ==
    loading <=> (abortRef # 0 /\ Live(abortRef))

(***************************************************************************)
(* C27: under fairness of the timeout timer every Pending state is         *)
(* eventually left, whatever the Query Service does (success, error, no    *)
(* response at all): loading becomes false and the state Succeeded,        *)
(* Failed or Idle.                                                         *)
(***************************************************************************)
C27_PendingIsLeft ==
    Pending ~> (~loading /\ (Succeeded \/ Failed \/ Idle))

\* The Query Service sent headers and then nothing; the timer expired and
\* the cut body read was rejected: Pending ended in Failed.
C27_Witness ==
    /\ lastOp = "bodyRejects"
    /\ settledAs.wasTimedOut
    /\ abortRef # 0 /\ phase[abortRef] = "settled"
    /\ Failed

=============================================================================
